---- MODULE Spec2Model ----
(***************************************************************************)
(* Model of petrkopylov/parts-catalog-3d.                                  *)
(*                                                                         *)
(*   src/unnamed/part_000  the static file responder (a Node http server)  *)
(*   src/script.js         the viewer object ModelViewer and its wiring    *)
(*                                                                         *)
(* script.js holds two complete definitions of class ModelViewer, one      *)
(* after the other (lines 10-1576 and lines 1681-2889).  The first one is  *)
(* the "version 2.0" viewer (file check, loader, fetch fallback, isLoading *)
(* flag, delayed placeholder); the second one is the older viewer (a loop  *)
(* over candidate paths, immediate placeholder).  The variable classDef    *)
(* says which definition the viewer object was built from.  Spec, SpecUI   *)
(* and their fair versions run the first definition; SpecBoth runs         *)
(* either.                                                                 *)
(*                                                                         *)
(* DOM elements the handlers look up with getElementById (loading          *)
(* indicator, selection popup, parts list) are taken to be present in the  *)
(* page, so the "if (element)" guards of the code are taken.               *)
(***************************************************************************)
EXTENDS Integers, Sequences, FiniteSets, TLC

(***************************************************************************)
(* Bounds of the model.                                                    *)
(***************************************************************************)
\* loadAssembly calls made during one run (the call of init() included)
MaxCalls == 2
\* scene objects (loaded scenes and placeholder groups) created during a run
MaxModels == 4
\* mesh nodes in a loaded scene file
MaxMeshes == 2
\* tokens of a request URL between its leading "/" and its last token
MaxUrlLen == 3
\* fingers on the screen at once
MaxFingers == 2
\* steps in which the delay of the popup timer passes
PopupSteps == 2
\* items put into the cart
MaxCart == 2
\* long-press timers pending at once
MaxTimers == 2
MaxModals == 1

(***************************************************************************)
(* Program constants.                                                      *)
(***************************************************************************)
\* createFallbackAssembly: the number of entries of its parts array
PlaceholderParts == 6
\* createFallbackAssembly of the second class definition
PlaceholderPartsOld == 4
\* showPopup: the delay of the auto-hide timer, in ms
PopupMs == 10000
\* handleTouchStart: the delay of the long-press timer, in ms
LongPressMs == 500
\* handleTouchEnd: two touchends closer than this reset the camera, in ms
DoubleTapMs == 300
\* handleTouchEnd: a touch that moved less than this, in px, is a tap
TapSlop == 10

VARIABLES
    \* ---- static file responder (part_000) ----
    req,             \* the request last received (NoRequest before the first)
    responses,       \* what the handler wrote for req: sequence of responses
    \* ---- viewer (script.js) ----
    classDef,        \* 1 or 2: which ModelViewer definition runs
    initialized,     \* init() has run
    isLoading,       \* this.isLoading
    loads,           \* per loadAssembly call: where the call is
    netLog,          \* per loadAssembly call: the network requests it issued
    lastGltf,        \* the local gltf of the loadAssembly call that ran last
    nextModel,       \* id the next created scene object gets
    currentModel,    \* this.currentModel (NoModel for null)
    allParts,        \* this.allParts
    objects,         \* this.objects
    scene,           \* assembly models that are children of this.scene
    fallbackTimers,  \* calls whose 1 s createFallbackAssembly timer is pending
    hideTimers,      \* calls whose 500 ms hide-indicator timer is pending
    indicatorDisplay,\* loadingIndicator.style.display
    indicatorContent,\* what loadingIndicator.innerHTML shows
    listRows,        \* rows of #parts-list: part -> data-action of its eye icon
    \* ---- viewer: selection, popup and touch state ----
    selectedObject,  \* this.selectedObject (NoPart for null)
    highlightedParts,\* this.highlightedParts
    highlightBox,    \* this.highlightBox.visible
    popupDisplay,    \* #selection-popup style.display
    popupTimeout,    \* this.popupTimeout: a timer id, 0 for undefined
    popupTimers,     \* pending auto-hide timers: records [id, left]
    hidden,          \* the parts whose visible flag is false
    material,        \* part -> the material object its material field refers to,
                     \* for the parts that refer to another one than at creation
    glow,            \* material objects whose emissive is 0x00ff00, intensity 0.5
    cartItems,       \* this.cartItems
    cartModals,      \* cart windows of viewCart that are in the document
    fingers,         \* touches currently on the screen
    touchStartX,     \* this.touchStartX
    touchStartY,     \* this.touchStartY
    touchTimeout,    \* this.touchTimeout: a timer id, 0 for null
    pressTimers,     \* pending long-press timers: records [id, left]
    sinceTouchEnd,   \* Date.now() - this.lastTouchTime, capped at DoubleTapMs
    seqActions,      \* what the handlers did during the current touch sequence
    lastClick        \* the part the last delivered click hit (NoPart: none)

serverVars == <<req, responses>>
loadVarsNoRows == <<classDef, initialized, isLoading, loads, netLog, lastGltf, nextModel,
                    currentModel, allParts, objects, scene, fallbackTimers,
                    hideTimers, indicatorDisplay, indicatorContent>>
loadVars == <<classDef, initialized, isLoading, loads, netLog, lastGltf, nextModel,
              currentModel, allParts, objects, scene, fallbackTimers,
              hideTimers, indicatorDisplay, indicatorContent, listRows>>
selVars == <<selectedObject, highlightedParts, highlightBox, popupDisplay,
             popupTimeout, popupTimers, hidden, material, glow>>
cartVars == <<cartItems, cartModals>>
uiVars == <<selVars, cartVars, fingers, touchStartX, touchStartY, touchTimeout,
            pressTimers, sinceTouchEnd, seqActions, lastClick>>
viewerVars == <<loadVars, uiVars>>
vars == <<serverVars, loadVars, uiVars>>

(***************************************************************************)
(* The static file responder, src/unnamed/part_000.                        *)
(*                                                                         *)
(* A URL or path is a sequence of tokens: "/" and "." are the two          *)
(* characters path.extname looks at, every other token stands for a run    *)
(* of characters that holds neither.                                       *)
(***************************************************************************)
Names == {"a", "html", "js", "css", "json", "png", "jpg", "gif", "glb", "gltf", "txt"}
Alphabet == {"/", ".", "a"}

SeqsUpTo(S, n) == UNION {[1..k -> S] : k \in 0..n}

\* request targets: origin-form, a "/", then up to MaxUrlLen tokens of
\* Alphabet, then possibly one more name
Urls == {<<"/">> \o t \o e : t \in SeqsUpTo(Alphabet, MaxUrlLen),
                             e \in {<<>>} \cup {<<n>> : n \in Names}}

\* let filePath = '.' + req.url; if (filePath === './') filePath = './index.html';
IndexHtml == <<".", "/", "index", ".", "html">>
filePath(url) ==
    IF <<".">> \o url = <<".", "/">> THEN IndexHtml ELSE <<".">> \o url

\* path.extname (posix), as Node computes it: a backwards scan for the last
\* "." of the last path component, trailing "/" skipped; "" when there is no
\* dot, when the dot starts the component, or when the component is "..".
RECURSIVE extScan(_, _, _)
extScan(path, i, st) ==
    IF i = 0 THEN st
    ELSE IF path[i] = "/"
         THEN IF ~st.matchedSlash
              THEN [st EXCEPT !.startPart = i + 1]
              ELSE extScan(path, i - 1, st)
         ELSE LET s1 == IF st.end = 0
                        THEN [st EXCEPT !.matchedSlash = FALSE, !.end = i + 1]
                        ELSE st
                  s2 == IF path[i] = "."
                        THEN IF s1.startDot = 0
                             THEN [s1 EXCEPT !.startDot = i]
                             ELSE IF s1.preDotState # 1
                                  THEN [s1 EXCEPT !.preDotState = 1]
                                  ELSE s1
                        ELSE IF s1.startDot # 0
                             THEN [s1 EXCEPT !.preDotState = -1]
                             ELSE s1
              IN extScan(path, i - 1, s2)

extname(path) ==
    LET st == extScan(path, Len(path),
                      [startDot |-> 0, startPart |-> 1, end |-> 0,
                       matchedSlash |-> TRUE, preDotState |-> 0])
    IN IF \/ st.startDot = 0
          \/ st.end = 0
          \/ st.preDotState = 0
          \/ /\ st.preDotState = 1
             /\ st.startDot = st.end - 1
             /\ st.startDot = st.startPart + 1
       THEN <<>>
       ELSE SubSeq(path, st.startDot, st.end - 1)

\* const mimeTypes = { '.html': 'text/html', ... }
mimeTypes ==
    (<<".", "html">> :> "text/html") @@
    (<<".", "js">>   :> "text/javascript") @@
    (<<".", "css">>  :> "text/css") @@
    (<<".", "json">> :> "application/json") @@
    (<<".", "png">>  :> "image/png") @@
    (<<".", "jpg">>  :> "image/jpg") @@
    (<<".", "gif">>  :> "image/gif") @@
    (<<".", "glb">>  :> "model/gltf-binary") @@
    (<<".", "gltf">> :> "model/gltf+json")

\* variant: contentType keeps its initial value 'text/html' (line 14)
contentTypeAlwaysHtml(path) == "text/html"
\* contentType = mimeTypes[extname] || 'application/octet-stream';
contentType(path) ==
    IF extname(path) \in DOMAIN mimeTypes
    THEN mimeTypes[extname(path)]
    ELSE "application/octet-stream"

\* The bytes of the file at a path: every file holds its own, distinct bytes.
FileBytes(path) == [bytesOf |-> path]

\* What fs.readFile hands to its callback: content, or an error with a code.
ErrorCodes == {"ENOENT", "EACCES", "EISDIR"}
ReadResult(path, error) ==
    IF error # "" THEN [error |-> error, content |-> <<>>]
    ELSE [error |-> "", content |-> FileBytes(path)]

NoHeaders == [type |-> "", cors |-> "", cache |-> ""]
NoRead == [error |-> "", content |-> <<>>]
NoRequest == [url |-> <<>>, filePath |-> <<>>, contentType |-> "",
              state |-> "none", read |-> NoRead]

\* variant: every read error is answered 500
respondAll500(r, read) ==
    IF read.error # ""
    THEN [status |-> 500, headers |-> NoHeaders,
          body |-> [text |-> "server error", code |-> read.error]]
    ELSE [status |-> 200,
          headers |-> [type |-> r.contentType, cors |-> "*",
                       cache |-> "no-cache, no-store, must-revalidate"],
          body |-> read.content]
\* the callback of fs.readFile: the response it writes (writeHead + end)
respond(r, read) ==
    IF read.error # ""
    THEN IF read.error = "ENOENT"
         THEN [status |-> 404, headers |-> NoHeaders,
               body |-> [text |-> "not found", code |-> ""]]
         ELSE [status |-> 500, headers |-> NoHeaders,
               body |-> [text |-> "server error", code |-> read.error]]
    ELSE [status |-> 200,
          headers |-> [type |-> r.contentType, cors |-> "*",
                       cache |-> "no-cache, no-store, must-revalidate"],
          body |-> read.content]

\* The file fs.readFile(filePath) opens: the operating system resolves a
\* relative path from the directory the server was started in, segment by
\* segment; an empty segment and "." stay, ".." goes to the parent.  The
\* names in a path are other names than that directory's own.
RECURSIVE segments(_, _)
segments(path, seg) ==
    IF path = <<>> THEN <<seg>>
    ELSE IF Head(path) = "/" THEN <<seg>> \o segments(Tail(path), <<>>)
    ELSE segments(Tail(path), Append(seg, Head(path)))

DotDot == <<".", ".">>
RECURSIVE resolve(_, _)
resolve(segs, at) ==
    IF segs = <<>> THEN at
    ELSE IF Head(segs) \in {<<>>, <<".">>} THEN resolve(Tail(segs), at)
    ELSE IF Head(segs) = DotDot /\ at # <<>> /\ at[Len(at)] # DotDot
         THEN resolve(Tail(segs), SubSeq(at, 1, Len(at) - 1))
    ELSE resolve(Tail(segs), Append(at, Head(segs)))

\* the path names a directory whatever the disk holds: it ends in "/", "."
\* or ".."; reading it fails (EISDIR, or ENOENT or ENOTDIR)
isDirectory(path) ==
    LET n == Len(path)
    IN \/ path[n] = "/"
       \/ n >= 2 /\ path[n - 1] = "/" /\ path[n] = "."
       \/ n >= 3 /\ path[n - 2] = "/" /\ path[n - 1] = "." /\ path[n] = "."

\* the file a path names lies outside the directory the server runs in
outside(path) ==
    LET at == resolve(segments(path, <<>>), <<>>)
    IN at # <<>> /\ at[1] = DotDot

\* http.createServer((req, res) => { ... fs.readFile(filePath, callback) })
Request(url) ==
    /\ req.state # "reading"
    /\ req' = [url |-> url, filePath |-> filePath(url),
               contentType |-> contentType(filePath(url)),
               state |-> "reading", read |-> NoRead]
    /\ responses' = <<>>
    /\ UNCHANGED viewerVars

\* the fs.readFile callback runs, once, with the outcome of the read; the
\* read of a directory has failed
ReadFileDone(read) ==
    /\ req.state = "reading"
    /\ read.error = "" => ~isDirectory(req.filePath)
    /\ req' = [req EXCEPT !.state = "done", !.read = read]
    /\ responses' = Append(responses, respond(req, read))
    /\ UNCHANGED viewerVars

ServerInit ==
    /\ req = NoRequest
    /\ responses = <<>>

ServerNext ==
    \/ \E url \in Urls : Request(url)
    \/ \E error \in ErrorCodes \cup {""} : ReadFileDone(ReadResult(req.filePath, error))

(***************************************************************************)
(* The viewer, src/script.js: scene objects and parts.                     *)
(*                                                                         *)
(* A model is a scene object: the scene of a loaded file (kind "gltf") or  *)
(* the group createFallbackAssembly builds (kind "placeholder").  meshes   *)
(* lists its mesh nodes in traversal order; TRUE marks a mesh whose        *)
(* bounding sphere has a radius below 0.01.  load is the loadAssembly call *)
(* that created the object (0: none did).  A part is the mesh idx of model *)
(* id.                                                                     *)
(***************************************************************************)
NoModel == [id |-> 0, kind |-> "none", meshes |-> <<>>, load |-> 0]
\* userData.partId of a mesh that was given none
NoId == -1
NoPart == [model |-> 0, idx |-> 0, partId |-> NoId]

\* the traverse of the first class definition leaves out the meshes of a
\* loaded scene whose radius is below 0.01 (lines 243-249)
skipped(m, i) == classDef = 1 /\ m.kind = "gltf" /\ m.meshes[i]

\* this.allParts.length when the traverse visits mesh i: the meshes pushed
\* before it
RECURSIVE pushedBefore(_, _)
pushedBefore(m, i) ==
    IF i = 1 THEN 0
    ELSE pushedBefore(m, i - 1) + (IF skipped(m, i - 1) THEN 0 ELSE 1)

\* variant: the part id taken from meshCount
assignPartIdMeshCount(length, meshCount) == meshCount

\* child.userData.partId = this.allParts.length (line 259, line 1843);
\* meshCount is the number of meshes visited so far, this one included
assignPartId(length, meshCount) == length

\* the mesh i of model m with the userData.partId it is given: by the
\* traverse, or by createFallbackAssembly (mesh.userData.partId = index,
\* line 498)
Part(m, i) ==
    [model |-> m.id, idx |-> i,
     partId |-> IF m.kind = "placeholder" THEN i - 1
                ELSE IF skipped(m, i) THEN NoId
                ELSE assignPartId(pushedBefore(m, i), i)]

\* the meshes of m, in traversal order
MeshesOf(m) == [i \in 1..Len(m.meshes) |-> Part(m, i)]
PartsIn(m) == {Part(m, i) : i \in 1..Len(m.meshes)}

\* let gltf = null (line 164): no file delivered yet
NoGltf == [null |-> TRUE]

\* what a loaded file can hold: no scene at all, or a scene with some meshes
GltfFiles ==
    {[hasScene |-> FALSE, meshes |-> <<>>]}
        \cup {[hasScene |-> TRUE, meshes |-> ms] : ms \in SeqsUpTo(BOOLEAN, MaxMeshes)}

\* currentModel.traverse(child => ...) of the first class definition: every
\* mesh is pushed to allParts and objects, except those with radius < 0.01
RECURSIVE collectFrom(_, _)
collectFrom(m, i) ==
    IF i > Len(m.meshes) THEN <<>>
    ELSE IF m.meshes[i] THEN collectFrom(m, i + 1)
         ELSE <<Part(m, i)>> \o collectFrom(m, i + 1)
collectParts(m) == collectFrom(m, 1)

\* the traverse of the second class definition: every mesh is a part
collectPartsOld(m) == MeshesOf(m)

Range(f) == {f[i] : i \in DOMAIN f}

Max(a, b) == IF a > b THEN a ELSE b
Min(a, b) == IF a < b THEN a ELSE b

\* every mesh a run can create
AllParts ==
    {[model |-> m, idx |-> i, partId |-> n] :
        m \in 1..MaxModels, i \in 1..Max(MaxMeshes, PlaceholderParts),
        n \in NoId..(Max(MaxMeshes, PlaceholderParts) - 1)}

\* the material object a mesh is created with; the loaded file and
\* createFallbackAssembly give every mesh a material object of its own
Material(p) == [mesh |-> p]

\* userData.originalMaterial (line 256, and line 495 for the placeholder):
\* a reference to the material object the mesh was created with
originalMaterial(p) == Material(p)

\* part.material, read from the map mat
materialOf(mat, p) == IF p \in DOMAIN mat THEN mat[p] ELSE Material(p)

\* part.material = part.userData.originalMaterial for every part of parts
restoreMaterial(mat, parts) ==
    [q \in (DOMAIN mat \ parts) \cup {p \in parts : originalMaterial(p) # Material(p)} |->
        IF q \in parts THEN originalMaterial(q) ELSE mat[q]]

\* updatePartsList: the rows of #parts-list are rebuilt from allParts, each
\* with an eye icon whose data-action is "show"
updatePartsList(parts) == [p \in Range(parts) |-> "show"]

\* new THREE.Group() filled with the entries of the parts array
Placeholder(id, n, c) ==
    [id |-> id, kind |-> "placeholder", meshes |-> [i \in 1..n |-> FALSE],
     load |-> c]

\* this.scene.remove(this.currentModel), guarded by if (this.currentModel)
removePrevious(cur, sc) == IF cur # NoModel THEN sc \ {cur} ELSE sc

(***************************************************************************)
(* createFallbackAssembly, first class definition (lines 448-514), called  *)
(* when this.currentModel is cur and the scene holds sc.                   *)
(***************************************************************************)
fallbackScene(cur, sc) == removePrevious(cur, sc)

\* variant: the loading indicator is left as it is
createFallbackAssemblyNoHide(cur, sc, id, c) ==
    LET m == Placeholder(id, PlaceholderParts, c)
    IN /\ indicatorDisplay' = indicatorDisplay
       /\ currentModel' = m
       /\ allParts' = MeshesOf(m)
       /\ objects' = MeshesOf(m)
       /\ scene' = fallbackScene(cur, sc) \cup {m}
       /\ listRows' = updatePartsList(MeshesOf(m))
createFallbackAssembly(cur, sc, id, c) ==
    LET m == Placeholder(id, PlaceholderParts, c)
    IN /\ indicatorDisplay' = "none"
       /\ currentModel' = m
       /\ allParts' = MeshesOf(m)
       /\ objects' = MeshesOf(m)
       /\ scene' = fallbackScene(cur, sc) \cup {m}
       /\ listRows' = updatePartsList(MeshesOf(m))

(***************************************************************************)
(* loadAssembly, first class definition (lines 112-358).  The function is  *)
(* async: it runs up to its next await in one step, and each await is a    *)
(* point where other callbacks run.  loads[c] is where call c stands:      *)
(*   "head"    awaiting checkFileExists (fetch with method HEAD)           *)
(*   "loader"  awaiting GLTFLoader.load                                    *)
(*   "fetch"   awaiting fetch(modelPath)                                   *)
(*   "buffer"  awaiting response.arrayBuffer()                             *)
(*   "parse"   awaiting GLTFLoader.parse                                   *)
(* and, once it has returned, how:                                         *)
(*   "rejected" at the isLoading guard, "success", "empty" (the zero-parts *)
(*   return), "failed" (the catch block ran).                              *)
(***************************************************************************)
ModelPath == "models/assembly.glb"

Awaiting == {"head", "loader", "fetch", "buffer", "parse", "path1", "path2", "path3"}

Calls == Len(loads)

\* a network request for the model file, as issued
Request_(method, via, path) ==
    [method |-> method, via |-> via, path |-> path, result |-> "pending"]

\* the last request of call c settles with result
Settled(c, result) == [netLog[c] EXCEPT ![Len(netLog[c])].result = result]

\* variant: the check fetches with the default method GET
checkFileExistsGet == Request_("GET", "check", ModelPath)
\* checkFileExists (lines 377-385): fetch(url, { method: 'HEAD' })
checkFileExists == Request_("HEAD", "check", ModelPath)

\* Scene object ids the calls in progress and the pending placeholder timers
\* can still take (a call takes at most two: a loaded scene without usable
\* mesh and the placeholder put in its place), and whether there is room for
\* n more.  A new call or a direct createFallbackAssembly is started only
\* when there is room, so that nothing already started is ever held back.
Reserved ==
    2 * Cardinality({c \in DOMAIN loads : loads[c] \in Awaiting})
        + Cardinality(fallbackTimers)
Room(n) == nextModel + Reserved + n - 1 <= MaxModels

\* variant: no isLoading guard
guardNever == FALSE
\* line 115: if (this.isLoading) return;
guard == isLoading

\* variant: the catch block sets no placeholder timer
catchNoTimer(c) ==
    /\ indicatorContent' = "error"
    /\ fallbackTimers' = fallbackTimers
    /\ isLoading' = FALSE
    /\ loads' = [loads EXCEPT ![c] = "failed"]
\* lines 319-357: the catch block and finally
catch(c) ==
    /\ indicatorContent' = "error"
    /\ fallbackTimers' = fallbackTimers \cup {c}
    /\ isLoading' = FALSE
    /\ loads' = [loads EXCEPT ![c] = "failed"]

\* a call of loadAssembly('assembly') up to its first await
loadAssembly ==
    LET c == Calls + 1
    IN IF guard
       THEN /\ loads' = Append(loads, "rejected")
            /\ netLog' = Append(netLog, <<>>)
            /\ lastGltf' = lastGltf
            /\ UNCHANGED <<isLoading, indicatorDisplay, indicatorContent>>
       ELSE /\ isLoading' = TRUE
            /\ indicatorDisplay' = "flex"
            /\ indicatorContent' = "progress"
            /\ loads' = Append(loads, "head")
            /\ netLog' = Append(netLog, <<checkFileExists>>)
            /\ lastGltf' = NoGltf

\* lines 228-317: the file is loaded; gltf is what the loader produced
process(c, gltf) ==
    IF ~gltf.hasScene
    THEN /\ catch(c)
         /\ UNCHANGED <<nextModel, currentModel, allParts, objects, scene,
                        hideTimers, indicatorDisplay, listRows>>
    ELSE LET m == [id |-> nextModel, kind |-> "gltf", meshes |-> gltf.meshes, load |-> c]
         IN IF collectParts(m) = <<>>
            THEN \* lines 270-274: createFallbackAssembly(); return;
                 /\ createFallbackAssembly(m, scene, nextModel + 1, c)
                 /\ nextModel' = nextModel + 2
                 /\ isLoading' = FALSE
                 /\ loads' = [loads EXCEPT ![c] = "empty"]
                 /\ UNCHANGED <<fallbackTimers, hideTimers, indicatorContent>>
            ELSE /\ currentModel' = m
                 /\ allParts' = collectParts(m)
                 /\ objects' = collectParts(m)
                 /\ scene' = scene \cup {m}
                 /\ listRows' = updatePartsList(collectParts(m))
                 /\ hideTimers' = hideTimers \cup {c}
                 /\ nextModel' = nextModel + 1
                 /\ isLoading' = FALSE
                 /\ loads' = [loads EXCEPT ![c] = "success"]
                 /\ UNCHANGED <<fallbackTimers, indicatorDisplay, indicatorContent>>


\* init() (lines 83-108): the scene is set up and loadAssembly is called
Init_ ==
    /\ ~initialized
    /\ classDef = 1
    /\ initialized' = TRUE
    /\ loadAssembly
    /\ UNCHANGED <<serverVars, uiVars, classDef, nextModel, currentModel, allParts,
                   objects, scene, fallbackTimers, hideTimers, listRows>>

\* window.debugViewer.reload() (line 1650)
Reload ==
    /\ initialized
    /\ classDef = 1
    /\ Calls < MaxCalls
    /\ guard \/ Room(2)
    /\ loadAssembly
    /\ UNCHANGED <<serverVars, uiVars, classDef, initialized, nextModel, currentModel,
                   allParts, objects, scene, fallbackTimers, hideTimers, listRows>>

\* checkFileExists resolves: response.ok, or false when fetch rejected
HeadDone(c, fileExists) ==
    /\ classDef = 1
    /\ c \in DOMAIN loads
    /\ loads[c] = "head"
    /\ IF ~fileExists
       THEN /\ catch(c)
            /\ netLog' = [netLog EXCEPT ![c] = Settled(c, "failed")]
            /\ UNCHANGED <<nextModel, currentModel, allParts, objects,
                           scene, hideTimers, indicatorDisplay, listRows>>
       ELSE \* lines 148-153, then loader.load(modelPath, ...)
            /\ scene' = removePrevious(currentModel, scene)
            /\ objects' = IF currentModel # NoModel THEN <<>> ELSE objects
            /\ allParts' = IF currentModel # NoModel THEN <<>> ELSE allParts
            /\ loads' = [loads EXCEPT ![c] = "loader"]
            /\ netLog' = [netLog EXCEPT ![c] =
                   Append(Settled(c, "ok"), Request_("GET", "loader", ModelPath))]
            /\ UNCHANGED <<isLoading, nextModel, currentModel, fallbackTimers,
                           hideTimers, indicatorDisplay, indicatorContent, listRows>>
    /\ UNCHANGED <<serverVars, uiVars, classDef, initialized, lastGltf>>

\* GLTFLoader.load calls onLoad
LoaderDone(c, gltf) ==
    /\ classDef = 1
    /\ c \in DOMAIN loads
    /\ loads[c] = "loader"
    /\ process(c, gltf)
    /\ netLog' = [netLog EXCEPT ![c] = Settled(c, "ok")]
    /\ lastGltf' = gltf
    /\ UNCHANGED <<serverVars, uiVars, classDef, initialized>>

\* GLTFLoader.load calls onError: lines 197-203, fetch(modelPath) is issued
LoaderFailed(c) ==
    /\ classDef = 1
    /\ c \in DOMAIN loads
    /\ loads[c] = "loader"
    /\ loads' = [loads EXCEPT ![c] = "fetch"]
    /\ netLog' = [netLog EXCEPT ![c] =
           Append(Settled(c, "failed"), Request_("GET", "fetch", ModelPath))]
    /\ UNCHANGED <<serverVars, uiVars, classDef, initialized, isLoading, lastGltf, nextModel,
                   currentModel, allParts, objects, scene, fallbackTimers,
                   hideTimers, indicatorDisplay, indicatorContent, listRows>>

\* fetch settles: ok is response.ok, FALSE also when fetch rejected
FetchDone(c, ok) ==
    /\ classDef = 1
    /\ c \in DOMAIN loads
    /\ loads[c] = "fetch"
    /\ IF ok
       THEN /\ loads' = [loads EXCEPT ![c] = "buffer"]
            /\ UNCHANGED <<isLoading, fallbackTimers, indicatorContent>>
       ELSE catch(c)
    /\ netLog' = [netLog EXCEPT ![c] = Settled(c, IF ok THEN "ok" ELSE "failed")]
    /\ UNCHANGED <<serverVars, uiVars, classDef, initialized, lastGltf, nextModel,
                   currentModel, allParts, objects, scene, hideTimers,
                   indicatorDisplay, listRows>>

\* response.arrayBuffer() settles
BufferDone(c, ok) ==
    /\ classDef = 1
    /\ c \in DOMAIN loads
    /\ loads[c] = "buffer"
    /\ IF ok
       THEN /\ loads' = [loads EXCEPT ![c] = "parse"]
            /\ UNCHANGED <<isLoading, fallbackTimers, indicatorContent>>
       ELSE catch(c)
    /\ UNCHANGED <<serverVars, uiVars, classDef, initialized, netLog, lastGltf, nextModel,
                   currentModel, allParts, objects, scene, hideTimers,
                   indicatorDisplay, listRows>>

\* GLTFLoader.parse calls onLoad
ParseDone(c, gltf) ==
    /\ classDef = 1
    /\ c \in DOMAIN loads
    /\ loads[c] = "parse"
    /\ process(c, gltf)
    /\ lastGltf' = gltf
    /\ UNCHANGED <<serverVars, uiVars, classDef, initialized, netLog>>

\* GLTFLoader.parse calls onError
ParseFailed(c) ==
    /\ classDef = 1
    /\ c \in DOMAIN loads
    /\ loads[c] = "parse"
    /\ catch(c)
    /\ UNCHANGED <<serverVars, uiVars, classDef, initialized, netLog, lastGltf, nextModel,
                   currentModel, allParts, objects, scene, hideTimers,
                   indicatorDisplay, listRows>>

\* lines 352-354: the timer set by the catch block fires
FallbackTimer(c) ==
    /\ c \in fallbackTimers
    /\ fallbackTimers' = fallbackTimers \ {c}
    /\ createFallbackAssembly(currentModel, scene, nextModel, c)
    /\ nextModel' = nextModel + 1
    /\ UNCHANGED <<serverVars, uiVars, classDef, initialized, isLoading, loads, netLog, lastGltf,
                   hideTimers, indicatorContent>>

\* lines 307-309: the timer set on success fires
\* variant: the timer of line 307 leaving the indicator as it is
HideTimerKeepsIndicator(c) ==
    /\ c \in hideTimers
    /\ hideTimers' = hideTimers \ {c}
    /\ UNCHANGED <<serverVars, uiVars, classDef, initialized, isLoading, loads, netLog, lastGltf,
                   nextModel, currentModel, allParts, objects, scene,
                   fallbackTimers, indicatorDisplay, indicatorContent, listRows>>

HideTimer(c) ==
    /\ c \in hideTimers
    /\ hideTimers' = hideTimers \ {c}
    /\ indicatorDisplay' = "none"
    /\ UNCHANGED <<serverVars, uiVars, classDef, initialized, isLoading, loads, netLog, lastGltf,
                   nextModel, currentModel, allParts, objects, scene,
                   fallbackTimers, indicatorContent, listRows>>

\* window.debugViewer.test() (line 1651), or the "test assembly" button the
\* catch block writes into the loading indicator (line 343)
TestFallback ==
    /\ initialized
    /\ classDef = 1
    /\ Room(1)
    /\ createFallbackAssembly(currentModel, scene, nextModel, 0)
    /\ nextModel' = nextModel + 1
    /\ UNCHANGED <<serverVars, uiVars, classDef, initialized, isLoading, loads, netLog, lastGltf,
                   fallbackTimers, hideTimers, indicatorContent>>

ViewerInit ==
    /\ initialized = FALSE
    /\ isLoading = FALSE
    /\ loads = <<>>
    /\ netLog = <<>>
    /\ lastGltf = NoGltf
    /\ nextModel = 1
    /\ currentModel = NoModel
    /\ allParts = <<>>
    /\ objects = <<>>
    /\ scene = {}
    /\ fallbackTimers = {}
    /\ hideTimers = {}
    /\ indicatorDisplay = "initial"
    /\ indicatorContent = "initial"
    /\ listRows = <<>>

LoadNext ==
    \/ Init_
    \/ Reload
    \/ \E c \in 1..MaxCalls, b \in BOOLEAN : HeadDone(c, b)
    \/ \E c \in 1..MaxCalls, g \in GltfFiles : LoaderDone(c, g)
    \/ \E c \in 1..MaxCalls : LoaderFailed(c)
    \/ \E c \in 1..MaxCalls, b \in BOOLEAN : FetchDone(c, b)
    \/ \E c \in 1..MaxCalls, b \in BOOLEAN : BufferDone(c, b)
    \/ \E c \in 1..MaxCalls, g \in GltfFiles : ParseDone(c, g)
    \/ \E c \in 1..MaxCalls : ParseFailed(c)
    \/ \E c \in 1..MaxCalls : FallbackTimer(c)
    \/ \E c \in 1..MaxCalls : HideTimer(c)
    \/ TestFallback


(***************************************************************************)
(* The second class definition (lines 1681-2889): loadAssembly loops over  *)
(* possiblePaths (lines 1780-1902), createFallbackAssembly (lines          *)
(* 1965-2013) neither removes the previous model nor hides the indicator,  *)
(* and there is no isLoading flag.  loads[c] is "path1", "path2", "path3"  *)
(* while call c awaits loader.loadAsync of that candidate.                 *)
(***************************************************************************)
\* lines 1800-1804 (the page is not served from github.io)
possiblePaths == <<"models/assembly.glb", "./models/assembly.glb", "/models/assembly.glb">>

PathState(i) == IF i = 1 THEN "path1" ELSE IF i = 2 THEN "path2" ELSE "path3"

createFallbackAssemblyOld(sc, id, c) ==
    LET m == Placeholder(id, PlaceholderPartsOld, c)
    IN /\ currentModel' = m
       /\ allParts' = MeshesOf(m)
       /\ objects' = MeshesOf(m)
       /\ scene' = sc \cup {m}
       /\ listRows' = updatePartsList(MeshesOf(m))

\* lines 1879-1901: the catch block
catchOld(c, sc) ==
    /\ indicatorContent' = "error"
    /\ createFallbackAssemblyOld(sc, nextModel, c)
    /\ nextModel' = nextModel + 1
    /\ loads' = [loads EXCEPT ![c] = "failed"]
    /\ UNCHANGED indicatorDisplay

\* variant: the loop tries the same candidate again
nextPathSame(i) == i
\* the for loop of lines 1810-1821: which candidate follows candidate i
nextPath(i) == i + 1

\* window.modelViewer.loadAssembly('assembly'), or the call of init():
\* lines 1780-1814, up to the first await
LoadAssemblyOld ==
    /\ classDef = 2
    /\ Calls < MaxCalls
    /\ Room(2)
    /\ initialized' = TRUE
    /\ indicatorDisplay' = "flex"
    /\ scene' = removePrevious(currentModel, scene)
    /\ objects' = IF currentModel # NoModel THEN <<>> ELSE objects
    /\ allParts' = IF currentModel # NoModel THEN <<>> ELSE allParts
    /\ loads' = Append(loads, PathState(1))
    /\ netLog' = Append(netLog, <<Request_("GET", "loader", possiblePaths[1])>>)
    /\ lastGltf' = NoGltf
    /\ UNCHANGED <<serverVars, uiVars, classDef, isLoading, nextModel, currentModel,
                   fallbackTimers, hideTimers, indicatorContent, listRows>>

\* loader.loadAsync(possiblePaths[i]) rejects
PathFailed(c, i) ==
    /\ classDef = 2
    /\ c \in DOMAIN loads
    /\ loads[c] = PathState(i)
    /\ IF nextPath(i) <= Len(possiblePaths)
       THEN /\ loads' = [loads EXCEPT ![c] = PathState(nextPath(i))]
            /\ netLog' = [netLog EXCEPT ![c] =
                   Append(Settled(c, "failed"),
                          Request_("GET", "loader", possiblePaths[nextPath(i)]))]
            /\ UNCHANGED <<nextModel, currentModel, allParts, objects, scene,
                           indicatorDisplay, indicatorContent, listRows>>
       ELSE \* lines 1823-1825: throw, caught at line 1879
            /\ catchOld(c, scene)
            /\ netLog' = [netLog EXCEPT ![c] = Settled(c, "failed")]
    /\ UNCHANGED <<serverVars, uiVars, classDef, initialized, isLoading, lastGltf,
                   fallbackTimers, hideTimers>>

\* loader.loadAsync(possiblePaths[i]) resolves: break, lines 1827-1877
PathDone(c, i, gltf) ==
    /\ classDef = 2
    /\ c \in DOMAIN loads
    /\ loads[c] = PathState(i)
    /\ IF ~gltf.hasScene
       THEN \* this.currentModel = undefined; traverse throws; catch
            catchOld(c, scene)
       ELSE LET m == [id |-> nextModel, kind |-> "gltf", meshes |-> gltf.meshes, load |-> c]
            IN /\ currentModel' = m
               /\ allParts' = collectPartsOld(m)
               /\ objects' = collectPartsOld(m)
               /\ scene' = scene \cup {m}
               /\ listRows' = updatePartsList(collectPartsOld(m))
               /\ indicatorDisplay' = "none"
               /\ nextModel' = nextModel + 1
               /\ loads' = [loads EXCEPT ![c] = "success"]
               /\ UNCHANGED indicatorContent
    /\ netLog' = [netLog EXCEPT ![c] = Settled(c, "ok")]
    /\ lastGltf' = gltf
    /\ UNCHANGED <<serverVars, uiVars, classDef, initialized, isLoading,
                   fallbackTimers, hideTimers>>

OldNext ==
    \/ LoadAssemblyOld
    \/ \E c \in 1..MaxCalls, i \in 1..3 : PathFailed(c, i)
    \/ \E c \in 1..MaxCalls, i \in 1..3, g \in GltfFiles : PathDone(c, i, g)


(***************************************************************************)
(* Selection, popup and visibility (lines 968-1110).  The handlers call    *)
(* one another, so each is a function from the state it finds to the       *)
(* state it leaves; an action applies the handlers of all the listeners    *)
(* the event is delivered to, in order.                                    *)
(***************************************************************************)
Ui == [selectedObject |-> selectedObject, highlightedParts |-> highlightedParts,
       highlightBox |-> highlightBox, popupDisplay |-> popupDisplay,
       popupTimeout |-> popupTimeout, popupTimers |-> popupTimers,
       hidden |-> hidden, material |-> material, glow |-> glow]

SetUi(st) ==
    /\ selectedObject' = st.selectedObject
    /\ highlightedParts' = st.highlightedParts
    /\ highlightBox' = st.highlightBox
    /\ popupDisplay' = st.popupDisplay
    /\ popupTimeout' = st.popupTimeout
    /\ popupTimers' = st.popupTimers
    /\ hidden' = st.hidden
    /\ material' = st.material
    /\ glow' = st.glow

\* variant: clearSelection without highlightedParts.clear()
clearSelectionKeepsParts(st) ==
    [st EXCEPT !.selectedObject = NoPart, !.highlightBox = FALSE]

\* clearSelection (lines 1005-1036): the material field of the selected part
\* and of every highlighted part is assigned userData.originalMaterial; the
\* emissive colour of no material object is written
clearSelection(st) ==
    [st EXCEPT !.material = restoreMaterial(@, ({st.selectedObject} \ {NoPart})
                                                  \cup st.highlightedParts),
               !.selectedObject = NoPart, !.highlightedParts = {},
               !.highlightBox = FALSE]

\* clearTimeout(id): the timer with that id, if it is pending, is dropped
clearTimeout(timers, id) == {t \in timers : t.id # id}

\* hidePopup (lines 1104-1110).  The second class definition (lines
\* 2544-2549) has no clearTimeout; it never sets a timer either.
hidePopup(st) ==
    [st EXCEPT !.popupDisplay = "none",
               !.popupTimers = clearTimeout(@, st.popupTimeout)]

\* the id setTimeout returns: one that no pending timer has
TimerIds == 1..(MaxTimers + 1)
FreshId(timers) == CHOOSE id \in TimerIds : \A t \in timers : t.id # id

\* variant: showPopup without its clearTimeout
showPopupNoClear(st, object) ==
    [st EXCEPT !.popupDisplay = "block",
               !.popupTimeout = FreshId(st.popupTimers),
               !.popupTimers = @ \cup {[id |-> FreshId(st.popupTimers),
                                        left |-> PopupMs]}]

\* showPopup (lines 1070-1102): the popup is shown, the timer of
\* this.popupTimeout is cleared and a new timer of PopupMs is set
showPopup(st, object) ==
    LET timers == clearTimeout(st.popupTimers, st.popupTimeout)
    IN [st EXCEPT !.popupDisplay = "block",
                  !.popupTimeout = FreshId(timers),
                  !.popupTimers = timers \cup {[id |-> FreshId(timers),
                                                left |-> PopupMs]}]

\* showPopup of the second class definition (lines 2518-2542): no timer
showPopupOld(st, object) == [st EXCEPT !.popupDisplay = "block"]

\* selectObject (lines 968-1003); every mesh in objects and every row's part
\* has userData.isPart set.  Lines 979-992 write the glow into the material
\* object the part refers to (emissive.setHex(0x00ff00), emissiveIntensity
\* 0.5); the materials are standard materials, which have an emissive colour.
selectObject(st, object) ==
    LET s1 == clearSelection(st)
        s2 == [s1 EXCEPT !.selectedObject = object, !.highlightBox = TRUE,
                         !.glow = @ \cup {materialOf(s1.material, object)},
                         !.highlightedParts = @ \cup {object}]
    IN IF classDef = 1 THEN showPopup(s2, object) ELSE showPopupOld(s2, object)

\* hidePart (lines 1057-1062) and showPart (lines 1064-1066)
hidePart(st, part) ==
    LET s1 == [st EXCEPT !.hidden = @ \cup {part}]
    IN IF s1.selectedObject = part THEN clearSelection(s1) ELSE s1
showPart(st, part) == [st EXCEPT !.hidden = @ \ {part}]

\* The decimal digits of a number, as a template literal or textContent
\* prints it; a missing id prints as the word undefined.
Digit == <<"0", "1", "2", "3", "4", "5", "6", "7", "8", "9">>
RECURSIVE String(_)
String(n) ==
    IF n = NoId THEN <<"undefined">>
    ELSE IF n < 10 THEN <<Digit[n + 1]>>
    ELSE String(n \div 10) \o <<Digit[(n % 10) + 1]>>

\* partId || other: the numbers 0 and undefined are falsy
orElse(partId, other) ==
    IF partId = 0 \/ partId = NoId THEN other ELSE String(partId)

\* <p>ID: ${part.userData.partId}</p> of a row of the parts list (line 556,
\* line 2049): the text after "ID: "
rowIdText(part) == String(part.partId)

\* idElement.textContent = object.userData.partId || '-' (line 1082, line
\* 2530): the text of #popup-id after showPopup(object)
popupIdText(object) == orElse(object.partId, <<"-">>)

\* the text of #popup-id: selectObject is the only caller of showPopup and
\* passes it the part it has just made the selected one
popupId == IF selectedObject # NoPart THEN popupIdText(selectedObject) ELSE <<>>

\* The partId of a cart item, as the text <span>ID: ${item.partId}</span>
\* prints it (line 1407, line 2733): partId || 'N/A' (line 1277), and in the
\* second class definition userData.partId itself (line 2666).
itemPartId(object) ==
    IF classDef = 1 THEN orElse(object.partId, <<"N", "/", "A">>)
    ELSE String(object.partId)

\* what this.cartItems.push(item) pushes (lines 1279-1287, lines 2662-2669)
CartItem(object) ==
    [objectId |-> object, name |-> object, partId |-> itemPartId(object)]

\* variant: addToCart putting the item in front
addToCartFront(st, cart) ==
    IF st.selectedObject # NoPart
    THEN <<CartItem(st.selectedObject)>> \o cart
    ELSE cart

\* addToCart (lines 1273-1293): the cart it leaves
addToCart(st, cart) ==
    IF st.selectedObject # NoPart
    THEN Append(cart, CartItem(st.selectedObject))
    ELSE cart

\* the document click listener (lines 939-949), for a target that is neither
\* inside the popup nor one of its buttons
documentClick(st) ==
    IF st.popupDisplay = "block" THEN clearSelection(hidePopup(st)) ELSE st

\* the document touchstart listener (lines 930-936), target outside the popup
documentTouchStart(st) ==
    IF st.popupDisplay = "block" THEN clearSelection(hidePopup(st)) ELSE st

\* a click that bubbles up to the document: setupUIListeners of the first
\* class definition registers documentClick, that of the second (lines
\* 2359-2400) registers no click listener on the document
bubble(st) == IF classDef = 1 THEN documentClick(st) ELSE st

\* A ray is the list of the meshes of objects it passes through, nearest
\* first; it passes through MaxMeshes of them at most.
Rays ==
    {r \in SeqsUpTo(Range(objects), Min(Len(objects), MaxMeshes)) :
        \A i, j \in DOMAIN r : i # j => r[i] # r[j]}

\* lines 823-824: intersectObjects(objects.filter(obj => obj.visible))
RECURSIVE Filter(_, _)
Filter(seq, keep) ==
    IF seq = <<>> THEN <<>>
    ELSE (IF Head(seq) \in keep THEN <<Head(seq)>> ELSE <<>>) \o Filter(Tail(seq), keep)

intersects(st, ray) ==
    LET visibleObjects == Filter(objects, Range(objects) \ st.hidden)
    IN Filter(ray, Range(visibleObjects))

\* line 2287 of the second class definition: intersectObjects(this.objects);
\* the raycaster does not look at the visible flag of the objects it is given
intersectsOld(st, ray) == Filter(ray, Range(objects))

raycast(st, ray) ==
    IF classDef = 1 THEN intersects(st, ray) ELSE intersectsOld(st, ray)

Hit(st, ray) == IF raycast(st, ray) = <<>> THEN NoPart ELSE raycast(st, ray)[1]

\* handleSelection (lines 811-840, and lines 2276-2300)
handleSelection(st, ray) ==
    IF raycast(st, ray) # <<>>
    THEN selectObject(st, raycast(st, ray)[1])
    ELSE clearSelection(hidePopup(st))

\* seqActions after a step that is no touch event: it is kept while a
\* finger is down, and forgotten once the sequence is over
SeqAfter(added) == IF fingers = 0 THEN {} ELSE seqActions \cup added

touchVars == <<fingers, touchStartX, touchStartY, touchTimeout, pressTimers,
               sinceTouchEnd>>

\* the variables a handler of the selection popup and the parts list leaves
restVars == <<serverVars, loadVars, touchVars, cartVars>>
restVarsNoRows == <<serverVars, loadVarsNoRows, touchVars, cartVars>>

\* a mouse click on the canvas: the canvas listener (handleSelection, line
\* 881), then the document listener
CanvasClick(ray) ==
    /\ initialized
    /\ SetUi(bubble(handleSelection(Ui, ray)))
    /\ lastClick' = Hit(Ui, ray)
    /\ seqActions' = SeqAfter({})
    /\ UNCHANGED restVars

\* a click on the row of part in the parts list, outside its eye icon: the
\* row listener (lines 564-570), then the document listener
RowClick(part) ==
    /\ initialized
    /\ part \in DOMAIN listRows
    /\ SetUi(bubble(selectObject(Ui, part)))
    /\ lastClick' = NoPart
    /\ seqActions' = SeqAfter({})
    /\ UNCHANGED restVars

\* a click on the eye icon of a row (lines 575-589); it stops propagation
ToggleClick(part) ==
    /\ initialized
    /\ part \in DOMAIN listRows
    /\ IF listRows[part] = "show"
       THEN /\ SetUi(hidePart(Ui, part))
            /\ listRows' = [listRows EXCEPT ![part] = "hide"]
       ELSE /\ SetUi(showPart(Ui, part))
            /\ listRows' = [listRows EXCEPT ![part] = "show"]
    /\ lastClick' = NoPart
    /\ seqActions' = SeqAfter({})
    /\ UNCHANGED restVarsNoRows

\* a click on #show-all: showAllParts (lines 1038-1055), then the document
\* listener
ShowAllClick ==
    /\ initialized
    /\ SetUi(bubble([Ui EXCEPT !.hidden = @ \ Range(allParts)]))
    /\ listRows' = [p \in DOMAIN listRows |-> "show"]
    /\ lastClick' = NoPart
    /\ seqActions' = SeqAfter({})
    /\ UNCHANGED restVarsNoRows

\* a click on #close-popup (line 923); the document listener skips it
ClosePopupClick ==
    /\ initialized
    /\ popupDisplay = "block"
    /\ SetUi(hidePopup(Ui))
    /\ lastClick' = NoPart
    /\ seqActions' = SeqAfter({})
    /\ UNCHANGED restVars

\* a click on #add-to-cart, a button of the popup (line 925); the document
\* listener skips it
AddToCartClick ==
    /\ initialized
    /\ popupDisplay = "block"
    /\ Len(cartItems) < MaxCart
    /\ cartItems' = addToCart(Ui, cartItems)
    /\ lastClick' = NoPart
    /\ seqActions' = SeqAfter({})
    /\ UNCHANGED <<serverVars, loadVars, touchVars, selVars, cartModals>>

\* variant: viewCart emptying the cart once it has shown it
viewCartEmpties(cart, modals) == [cartItems |-> <<>>, cartModals |-> modals]

\* viewCart (lines 1324-1387): an empty cart is answered by a notification;
\* otherwise a window listing the items is appended to the document.  The
\* second class definition (lines 2704-2713) shows an alert.
viewCart(cart, modals) ==
    [cartItems |-> cart,
     cartModals |-> IF classDef = 1 /\ cart # <<>> THEN modals + 1 ELSE modals]

\* a click on #view-cart (line 927), then the document listener; the page
\* decides whether the button is inside the popup
ViewCartClick(inPopup) ==
    /\ initialized
    /\ cartModals < MaxModals
    /\ cartItems' = viewCart(cartItems, cartModals).cartItems
    /\ cartModals' = viewCart(cartItems, cartModals).cartModals
    /\ SetUi(IF inPopup THEN Ui ELSE bubble(Ui))
    /\ lastClick' = NoPart
    /\ seqActions' = SeqAfter({})
    /\ UNCHANGED <<serverVars, loadVars, touchVars>>

\* a click on #clear-cart of a cart window (lines 1372-1378), then the
\* document listener: the window is a child of the body, outside the popup
ClearCartClick ==
    /\ cartModals > 0
    /\ cartItems' = <<>>
    /\ cartModals' = cartModals - 1
    /\ SetUi(bubble(Ui))
    /\ lastClick' = NoPart
    /\ seqActions' = SeqAfter({})
    /\ UNCHANGED <<serverVars, loadVars, touchVars>>

\* a click on #close-cart-modal or on the backdrop of a cart window (lines
\* 1367-1369, 1381-1385), then the document listener
CloseCartClick ==
    /\ cartModals > 0
    /\ cartModals' = cartModals - 1
    /\ SetUi(bubble(Ui))
    /\ lastClick' = NoPart
    /\ seqActions' = SeqAfter({})
    /\ UNCHANGED <<serverVars, loadVars, touchVars, cartItems>>

\* the callback of a showPopup timer runs (lines 1097-1101)
PopupTimer(id) ==
    /\ \E t \in popupTimers : t.id = id /\ t.left = 0
    /\ LET s1 == [Ui EXCEPT !.popupTimers = clearTimeout(@, id)]
       IN SetUi(IF s1.popupDisplay = "block" THEN hidePopup(s1) ELSE s1)
    /\ lastClick' = NoPart
    /\ seqActions' = SeqAfter({})
    /\ UNCHANGED restVars

\* the time that passes in one PopupTick step, in ms
PopupTickMs == PopupMs \div PopupSteps

\* PopupTickMs pass on the popup timers; a timer that is due fires before
\* more time passes.  The steps of the popup timers and those of the touch
\* timers (Tick) are not tied to one another.
PopupTick ==
    /\ popupTimers # {}
    /\ \A t \in popupTimers : t.left > 0
    /\ popupTimers' = {[t EXCEPT !.left = Max(0, @ - PopupTickMs)] : t \in popupTimers}
    /\ lastClick' = NoPart
    /\ seqActions' = SeqAfter({})
    /\ UNCHANGED <<restVars, selectedObject, highlightedParts, highlightBox,
                   popupDisplay, popupTimeout, hidden, material, glow>>

(***************************************************************************)
(* Touch handling (lines 842-878).  Positions are in px, measured from     *)
(* the point where the first finger of the sequence went down.             *)
(***************************************************************************)
Origin == 0
Coords == {0, TapSlop}

FreshTimer == FreshId(pressTimers)

\* touchstart on the canvas: handleTouchStart, then the document listener
TouchStart(x, y) ==
    /\ initialized
    /\ fingers = 0 => x = Origin /\ y = Origin
    /\ fingers < MaxFingers
    /\ fingers = 0 => Cardinality(pressTimers) < MaxTimers
    /\ fingers' = fingers + 1
    /\ IF fingers + 1 = 1
       THEN /\ touchStartX' = x
            /\ touchStartY' = y
            /\ touchTimeout' = FreshTimer
            /\ pressTimers' = pressTimers \cup {[id |-> FreshTimer, left |-> LongPressMs]}
       ELSE UNCHANGED <<touchStartX, touchStartY, touchTimeout, pressTimers>>
    /\ SetUi(documentTouchStart(Ui))
    /\ seqActions' = IF fingers = 0 THEN {} ELSE seqActions
    /\ lastClick' = NoPart
    /\ UNCHANGED <<serverVars, loadVars, sinceTouchEnd, cartVars>>

Abs(n) == IF n < 0 THEN -n ELSE n

\* lines 862-869: is the lifted touch a tap
isTap(n, x, y) ==
    /\ n = 1
    /\ Abs(x - touchStartX) < TapSlop
    /\ Abs(y - touchStartY) < TapSlop

\* lines 872-876: is this touchend the second of a double tap
isDoubleTap == sinceTouchEnd < DoubleTapMs

\* touchend on the canvas: n touches lifted, the (first) one at x, y;
\* handleTouchEnd
TouchEnd(n, x, y, ray) ==
    /\ fingers >= 1
    /\ n \in 1..fingers
    /\ ~isTap(n, x, y) => ray = <<>>
    /\ fingers' = fingers - n
    /\ pressTimers' = {t \in pressTimers : t.id # touchTimeout}
    /\ touchTimeout' = 0
    /\ SetUi(IF isTap(n, x, y) THEN handleSelection(Ui, ray) ELSE Ui)
    /\ seqActions' = seqActions
                        \cup (IF isTap(n, x, y) THEN {"tap"} ELSE {})
                        \cup (IF isDoubleTap THEN {"resetCamera"} ELSE {})
    /\ sinceTouchEnd' = 0
    /\ lastClick' = NoPart
    /\ UNCHANGED <<serverVars, loadVars, touchStartX, touchStartY, cartVars>>

\* touchcancel: the browser takes the touches over; no listener is registered
TouchCancel ==
    /\ fingers >= 1
    /\ fingers' = 0
    /\ lastClick' = NoPart
    /\ UNCHANGED <<serverVars, loadVars, selVars, cartVars, touchStartX,
                   touchStartY, touchTimeout, pressTimers, sinceTouchEnd,
                   seqActions>>

\* a long-press timer fires (lines 847-852)
PressTimer(id) ==
    /\ \E t \in pressTimers : t.id = id /\ t.left = 0
    /\ pressTimers' = {t \in pressTimers : t.id # id}
    /\ seqActions' = SeqAfter(IF selectedObject # NoPart THEN {"contextMenu"} ELSE {})
    /\ lastClick' = NoPart
    /\ UNCHANGED <<serverVars, loadVars, selVars, cartVars, fingers,
                   touchStartX, touchStartY, touchTimeout, sinceTouchEnd>>

RECURSIVE GCD(_, _)
GCD(a, b) == IF b = 0 THEN a ELSE GCD(b, a % b)

\* the time that passes in one Tick step, in ms: the coarsest step that
\* lands on both delays exactly
TickMs == GCD(LongPressMs, DoubleTapMs)

\* TickMs pass; a timer that is due fires before more time passes
Tick ==
    /\ initialized
    /\ \A t \in pressTimers : t.left > 0
    /\ \/ pressTimers # {}
       \/ sinceTouchEnd < DoubleTapMs
    /\ pressTimers' = {[t EXCEPT !.left = Max(0, @ - TickMs)] : t \in pressTimers}
    /\ sinceTouchEnd' = Min(DoubleTapMs, sinceTouchEnd + TickMs)
    /\ seqActions' = SeqAfter({})
    /\ lastClick' = NoPart
    /\ UNCHANGED <<serverVars, loadVars, selVars, cartVars, fingers,
                   touchStartX, touchStartY, touchTimeout>>

UiInit ==
    /\ selectedObject = NoPart
    /\ highlightedParts = {}
    /\ highlightBox = FALSE
    /\ popupDisplay = "initial"
    /\ popupTimeout = 0
    /\ popupTimers = {}
    /\ hidden = {}
    /\ material = [p \in {} |-> Material(p)]
    /\ glow = {}
    /\ cartItems = <<>>
    /\ cartModals = 0
    /\ fingers = 0
    /\ touchStartX = 0
    /\ touchStartY = 0
    /\ touchTimeout = 0
    /\ pressTimers = {}
    /\ sinceTouchEnd = DoubleTapMs
    /\ seqActions = {}
    /\ lastClick = NoPart

UiNext ==
    \/ \E ray \in Rays : CanvasClick(ray)
    \/ \E part \in DOMAIN listRows : RowClick(part)
    \/ \E part \in DOMAIN listRows : ToggleClick(part)
    \/ ShowAllClick
    \/ ClosePopupClick
    \/ \E id \in TimerIds : PopupTimer(id)
    \/ PopupTick
    \/ \E x \in Coords, y \in Coords : TouchStart(x, y)
    \/ \E n \in 1..MaxFingers, x \in Coords, y \in Coords, ray \in Rays :
           TouchEnd(n, x, y, ray)
    \/ TouchCancel
    \/ \E id \in TimerIds : PressTimer(id)
    \/ Tick

(***************************************************************************)
(* Specifications.                                                         *)
(***************************************************************************)
\* the state the constructors leave (lines 11-74)
Init == ServerInit /\ ViewerInit /\ UiInit /\ classDef = 1

\* the viewer loading its assembly
Next == LoadNext
Spec == Init /\ [][Next]_vars

\* the browser runs a timer callback once its delay has passed
FairSpec == Spec /\ \A c \in 1..MaxCalls : WF_vars(FallbackTimer(c))

\* a request of call c settles: the promise call c awaits resolves or rejects
Settle(c) ==
    \/ \E b \in BOOLEAN : HeadDone(c, b)
    \/ \E g \in GltfFiles : LoaderDone(c, g)
    \/ LoaderFailed(c)
    \/ \E b \in BOOLEAN : FetchDone(c, b)
    \/ \E b \in BOOLEAN : BufferDone(c, b)
    \/ \E g \in GltfFiles : ParseDone(c, g)
    \/ ParseFailed(c)

\* Requests settle and the browser runs timer callbacks once their delay has
\* passed: as long as a request is pending or a timer is set, one of them
\* settles or fires.
Progress == \E c \in 1..MaxCalls : Settle(c) \/ FallbackTimer(c) \/ HideTimer(c)
\* the loads of the viewer and their timers
SettleNext == Init_ \/ Reload \/ Progress
SpecSettle == Init /\ [][SettleNext]_vars /\ WF_vars(Progress)

\* the responder answering requests
SpecServer == Init /\ [][ServerNext]_vars

\* either class definition loading its assembly
InitBoth == ServerInit /\ ViewerInit /\ UiInit /\ classDef \in {1, 2}
SpecBoth == InitBoth /\ [][LoadNext \/ OldNext]_vars

\* The viewer after init() and a load that found a file with MaxMeshes
\* meshes, once the hide timer of that load has fired: a state of Spec.
Loaded == [id |-> 1, kind |-> "gltf", meshes |-> [i \in 1..MaxMeshes |-> FALSE],
           load |-> 1]
InitLoaded ==
    /\ ServerInit
    /\ UiInit
    /\ classDef = 1
    /\ initialized = TRUE
    /\ isLoading = FALSE
    /\ loads = <<"success">>
    /\ netLog = << <<[checkFileExists EXCEPT !.result = "ok"],
                     [Request_("GET", "loader", ModelPath) EXCEPT !.result = "ok"]>> >>
    /\ lastGltf = [hasScene |-> TRUE, meshes |-> Loaded.meshes]
    /\ nextModel = 2
    /\ currentModel = Loaded
    /\ allParts = MeshesOf(Loaded)
    /\ objects = MeshesOf(Loaded)
    /\ scene = {Loaded}
    /\ fallbackTimers = {}
    /\ hideTimers = {}
    /\ indicatorDisplay = "none"
    /\ indicatorContent = "progress"
    /\ listRows = updatePartsList(MeshesOf(Loaded))

\* the user working with the loaded assembly: mouse, parts list and touch
SpecUI == InitLoaded /\ [][UiNext]_vars

\* The viewer of the second class definition after init() and a load that
\* found the file under its first candidate path: a state of SpecBoth.
InitLoadedOld ==
    /\ ServerInit
    /\ UiInit
    /\ classDef = 2
    /\ initialized = TRUE
    /\ isLoading = FALSE
    /\ loads = <<"success">>
    /\ netLog = << <<[Request_("GET", "loader", possiblePaths[1])
                         EXCEPT !.result = "ok"]>> >>
    /\ lastGltf = [hasScene |-> TRUE, meshes |-> Loaded.meshes]
    /\ nextModel = 2
    /\ currentModel = Loaded
    /\ allParts = MeshesOf(Loaded)
    /\ objects = MeshesOf(Loaded)
    /\ scene = {Loaded}
    /\ fallbackTimers = {}
    /\ hideTimers = {}
    /\ indicatorDisplay = "none"
    /\ indicatorContent = "initial"
    /\ listRows = updatePartsList(MeshesOf(Loaded))

\* Selecting parts, in either class definition: mouse, parts list, popup
\* buttons, taps and the popup timer.  Long presses, double taps and
\* touchcancel, which write none of the selection variables, are left to
\* SpecUI.
SelectNext ==
    \/ \E ray \in Rays : CanvasClick(ray)
    \/ \E part \in DOMAIN listRows : RowClick(part)
    \/ \E part \in DOMAIN listRows : ToggleClick(part)
    \/ ShowAllClick
    \/ ClosePopupClick
    \/ \E id \in TimerIds : PopupTimer(id)
    \/ PopupTick
    \/ \E x \in Coords, y \in Coords : TouchStart(x, y)
    \/ \E n \in 1..MaxFingers, x \in Coords, y \in Coords, ray \in Rays :
           TouchEnd(n, x, y, ray)
SpecSelect == (InitLoaded \/ InitLoadedOld) /\ [][SelectNext]_vars

\* Selecting parts in the first class definition; time passes on the popup
\* timers, and the browser runs a timer callback once its delay has passed.
SpecPopup ==
    /\ InitLoaded
    /\ [][SelectNext]_vars
    /\ WF_vars(PopupTick)
    /\ WF_vars(\E id \in TimerIds : PopupTimer(id))

\* Loading and replacing the assembly while the user taps on the canvas: on
\* the first part of the assembly shown, or beside the assembly.
TapRays == {<<>>} \cup {<<objects[i]>> : i \in 1..Min(1, Len(objects))}
ReplaceNext ==
    \/ LoadNext
    \/ fingers = 0 /\ TouchStart(Origin, Origin)
    \/ \E ray \in TapRays : TouchEnd(1, Origin, Origin, ray)
SpecReplace == Init /\ [][ReplaceNext]_vars

\* selecting parts on the canvas, by mouse or by a tap of one finger that
\* does not move, hiding and showing them, and putting them into the cart
CartNext ==
    \/ \E ray \in Rays : CanvasClick(ray)
    \/ \E part \in DOMAIN listRows : ToggleClick(part)
    \/ fingers = 0 /\ TouchStart(Origin, Origin)
    \/ \E ray \in Rays : TouchEnd(1, Origin, Origin, ray)
    \/ AddToCartClick
SpecCart == (InitLoaded \/ InitLoadedOld) /\ [][CartNext]_vars

\* The cart while the assembly is used and replaced.  The model file is
\* missing or holds the scene of Loaded, and the loader reads it at its first
\* attempt; the user taps on the first part or beside the assembly, clicks
\* the eye icon of the first row, and uses the cart buttons.
FirstRows == {p \in DOMAIN listRows : \E i \in 1..Min(1, Len(allParts)) : allParts[i] = p}
LoadedFile == [hasScene |-> TRUE, meshes |-> Loaded.meshes]
FrameNext ==
    \/ Reload
    \/ \E c \in 1..MaxCalls, b \in BOOLEAN : HeadDone(c, b)
    \/ \E c \in 1..MaxCalls : LoaderDone(c, LoadedFile)
    \/ \E c \in 1..MaxCalls : FallbackTimer(c)
    \/ \E c \in 1..MaxCalls : HideTimer(c)
    \/ LoadAssemblyOld
    \/ \E c \in 1..MaxCalls : PathDone(c, 1, LoadedFile)
    \/ fingers = 0 /\ TouchStart(Origin, Origin)
    \/ \E ray \in TapRays : TouchEnd(1, Origin, Origin, ray)
    \/ \E part \in FirstRows : ToggleClick(part)
    \/ AddToCartClick
    \/ \E inPopup \in BOOLEAN : ViewCartClick(inPopup)
    \/ ClearCartClick
    \/ CloseCartClick
SpecFrame == (InitLoaded \/ InitLoadedOld) /\ [][FrameNext]_vars

(***************************************************************************)
(* Claims.                                                                 *)
(***************************************************************************)

\* C1: whenever a call of loadAssembly fails (the file check says the file is
\* missing, the loader and then the fetch fallback fail, or the loaded file
\* has no scene), the catch block writes the error message into the loading
\* indicator and sets the placeholder timer; when that timer fires the
\* placeholder of that call is currentModel, allParts and objects are its
\* parts and it is in the scene; and the timer does fire: it is never pending
\* for ever.
C1_PlaceholderShown ==
    /\ currentModel.kind = "placeholder"
    /\ allParts = MeshesOf(currentModel)
    /\ objects = MeshesOf(currentModel)
    /\ Len(allParts) = PlaceholderParts
    /\ currentModel \in scene
C1_FailureShowsErrorThenPlaceholder ==
    /\ [][\A c \in DOMAIN loads :
            (loads[c] \in Awaiting /\ loads'[c] = "failed")
                => (indicatorContent' = "error" /\ c \in fallbackTimers')]_vars
    /\ [][\A c \in fallbackTimers :
            c \notin fallbackTimers'
                => (C1_PlaceholderShown' /\ currentModel'.load = c)]_vars
    /\ \A c \in 1..MaxCalls : []<>(c \notin fallbackTimers)
C1_Witness ==
    /\ loads # <<>>
    /\ loads[1] = "failed"
    /\ netLog[1][Len(netLog[1])].via = "fetch"
    /\ fallbackTimers = {}
    /\ indicatorContent = "error"
    /\ C1_PlaceholderShown
    /\ currentModel.load = 1

\* C2: every request gets exactly one response; its status is 404 when the
\* read failed with ENOENT, 500 when it failed with another code, and 200
\* only when the read succeeded.
C2_StatusByReadOutcome ==
    /\ req.state = "reading" => responses = <<>>
    /\ req.state = "done" =>
          /\ Len(responses) = 1
          /\ responses[1].status \in {200, 404, 500}
          /\ req.read.error = "ENOENT" => responses[1].status = 404
          /\ req.read.error \notin {"", "ENOENT"} => responses[1].status = 500
          /\ responses[1].status = 200 <=> req.read.error = ""

\* a request whose read failed with a code other than ENOENT was answered
C2_Witness ==
    /\ req.state = "done"
    /\ req.read.error = "EACCES"
    /\ responses[1].status = 500

\* C3: a request whose read succeeded is answered 200 with the bytes of the
\* file at '.' + URL (./index.html for '/'), the Content-Type of the path's
\* extension (application/octet-stream when the table has no entry for it),
\* Access-Control-Allow-Origin * and the no-cache Cache-Control.
C3_TableExtensions == {"html", "js", "css", "json", "png", "jpg", "gif", "glb", "gltf"}
C3_SuccessResponse ==
    (req.state = "done" /\ req.read.error = "") =>
        LET path == IF req.url = <<"/">> THEN <<".", "/", "index", ".", "html">>
                    ELSE <<".">> \o req.url
            ext == extname(path)
            r == responses[1]
        IN /\ Len(responses) = 1
           /\ r.status = 200
           /\ r.body = FileBytes(path)
           /\ IF Len(ext) = 2 /\ ext[2] \in C3_TableExtensions
              THEN r.headers.type = mimeTypes[ext]
              ELSE r.headers.type = "application/octet-stream"
           /\ r.headers.cors = "*"
           /\ r.headers.cache = "no-cache, no-store, must-revalidate"

\* the request for "/" was served index.html as text/html
C3_Witness ==
    /\ req.state = "done"
    /\ req.read.error = ""
    /\ req.url = <<"/">>
    /\ responses[1].headers.type = "text/html"
    /\ responses[1].body = FileBytes(IndexHtml)

\* C4 (as stated): within one call of loadAssembly, no candidate path is tried
\* more than once.
C4_Attempts(c) == Filter(netLog[c], {r \in Range(netLog[c]) : r.method = "GET"})
C4_Paths(c) == [i \in 1..Len(C4_Attempts(c)) |-> C4_Attempts(c)[i].path]
C4_EachPathAtMostOnce ==
    \A c \in DOMAIN netLog :
        \A i, j \in 1..Len(C4_Paths(c)) : C4_Paths(c)[i] = C4_Paths(c)[j] => i = j

\* C4: the load attempts of one call go over the candidate list of the class
\* definition in list order (three paths in the second definition, the one
\* path models/<name>.glb in the first); an attempt follows only a failed
\* attempt, so the first success stops the attempts; the second definition
\* tries each candidate at most once, the first tries its single path at most
\* twice (GLTFLoader.load, then fetch after the loader failed); a call whose
\* last possible attempt failed has failed; and a call that has returned
\* issues no further request.
C4_Candidates == IF classDef = 2 THEN possiblePaths ELSE <<ModelPath, ModelPath>>
C4_IsPrefix(a, b) == Len(a) <= Len(b) /\ \A i \in 1..Len(a) : a[i] = b[i]
C4_AttemptsInListOrder ==
    /\ [](\A c \in DOMAIN netLog :
            LET a == C4_Attempts(c)
            IN /\ C4_IsPrefix(C4_Paths(c), C4_Candidates)
               /\ \A i \in 1..Len(a) :
                     /\ a[i].via = (IF classDef = 1 /\ i = 2 THEN "fetch" ELSE "loader")
                     /\ i < Len(a) => a[i].result = "failed"
               /\ (Len(a) = Len(C4_Candidates) /\ a[Len(a)].result = "failed")
                     => loads[c] = "failed"
               /\ loads[c] \notin Awaiting
                     => \A i \in 1..Len(a) : a[i].result # "pending")
    /\ [][\A c \in DOMAIN netLog :
            loads[c] \notin Awaiting => netLog'[c] = netLog[c]]_vars
C4_Witness ==
    /\ classDef = 2
    /\ loads # <<>>
    /\ loads[1] = "failed"
    /\ C4_Paths(1) = possiblePaths
    /\ \A i \in 1..3 : netLog[1][i].result = "failed"
    /\ currentModel.kind = "placeholder"

\* C5 (as stated): an accepted call of loadAssembly issues at most one network
\* request for the model file.
C5_OneRequestPerLoad ==
    \A c \in DOMAIN netLog : Len(netLog[c]) <= 1

\* C5: an accepted call of loadAssembly issues at most three requests for
\* models/<name>.glb, in this order: the HEAD request of checkFileExists, a GET
\* by GLTFLoader.load only after the check succeeded, a GET by fetch only
\* after the loader failed; a request is issued only when the one before it
\* has settled, so at most one is outstanding.
C5_RequestOrder ==
    <<[method |-> "HEAD", via |-> "check", path |-> ModelPath],
      [method |-> "GET", via |-> "loader", path |-> ModelPath],
      [method |-> "GET", via |-> "fetch", path |-> ModelPath]>>
C5_AtMostThreeRequestsInOrder ==
    \A c \in DOMAIN netLog :
        /\ Len(netLog[c]) <= 3
        /\ loads[c] = "rejected" <=> netLog[c] = <<>>
        /\ \A i \in 1..Len(netLog[c]) :
              /\ [method |-> netLog[c][i].method, via |-> netLog[c][i].via,
                  path |-> netLog[c][i].path] = C5_RequestOrder[i]
              /\ i < Len(netLog[c]) =>
                    netLog[c][i].result = (IF i = 1 THEN "ok" ELSE "failed")
        /\ Cardinality({i \in 1..Len(netLog[c]) : netLog[c][i].result = "pending"}) <= 1
C5_Witness ==
    /\ loads # <<>>
    /\ Len(netLog[1]) = 3
    /\ loads[1] = "success"

\* C6: at most one call of loadAssembly is in progress at any time; isLoading
\* is true exactly while one is, from the start of an accepted call until it
\* returns; and a call made while isLoading is true returns at once, leaving
\* currentModel, allParts, objects, the scene and isLoading as they were.
C6_InProgress == {c \in DOMAIN loads : loads[c] \in Awaiting}
C6_OneLoadInProgress ==
    /\ [](Cardinality(C6_InProgress) <= 1)
    /\ [](isLoading <=> C6_InProgress # {})
    /\ [][(isLoading /\ Len(loads') = Len(loads) + 1)
            => /\ loads'[Len(loads')] = "rejected"
               /\ netLog'[Len(loads')] = <<>>
               /\ UNCHANGED <<isLoading, currentModel, allParts, objects, scene,
                              fallbackTimers, hideTimers>>]_vars
    /\ [][(~isLoading /\ Len(loads') = Len(loads) + 1)
            => (isLoading' /\ loads'[Len(loads')] = "head")]_vars
C6_Witness ==
    /\ Len(loads) = 2
    /\ loads[1] = "loader"
    /\ loads[2] = "rejected"
    /\ isLoading

\* C7: the placeholder timer of a failed load, firing when currentModel is the
\* model of a later load that succeeded, leaves that model in place.
C7_PlaceholderKeepsLaterModel ==
    [][\A t \in fallbackTimers :
          (/\ t \notin fallbackTimers'
           /\ currentModel.kind = "gltf"
           /\ currentModel.load > t
           /\ loads[currentModel.load] = "success")
          => (currentModel' = currentModel /\ allParts' = allParts)]_vars

\* C8: the scene holds at most one assembly model (loaded scene or placeholder
\* group), and every model in the scene is currentModel, so every part mesh in
\* the scene belongs to currentModel.
C8_SceneHoldsOnlyCurrentModel ==
    /\ Cardinality(scene) <= 1
    /\ \A m \in scene : m = currentModel

\* C9: after a click on the canvas whose nearest visible hit is part p has been
\* delivered to all the listeners registered for it, p is selectedObject and
\* the selection popup is displayed.
C9_ClickSelectsAndShowsPopup ==
    lastClick # NoPart => (selectedObject = lastClick /\ popupDisplay = "block")

\* C10: one touch sequence triggers at most one of the tap selection, the
\* long-press context menu and the double-tap camera reset.
C10_OneGestureAction ==
    Cardinality(seqActions \cap {"tap", "contextMenu", "resetCamera"}) <= 1

\* C11: a load whose file holds a scene with zero mesh nodes ends without the
\* load-error message: when the call returns, isLoading is false, the loading
\* indicator is hidden and shows no error, and currentModel is the placeholder
\* of that call, in the scene, with allParts its parts (not empty).
C11_ZeroMeshFile == [hasScene |-> TRUE, meshes |-> <<>>]
C11_ZeroMeshLoadShowsPlaceholder ==
    [][\A c \in DOMAIN loads :
          (loads[c] \in Awaiting /\ loads'[c] \notin Awaiting
              /\ lastGltf' = C11_ZeroMeshFile)
              => /\ loads'[c] = "empty"
                 /\ ~isLoading'
                 /\ indicatorDisplay' = "none"
                 /\ indicatorContent' # "error"
                 /\ c \notin fallbackTimers'
                 /\ currentModel'.kind = "placeholder"
                 /\ currentModel'.load = c
                 /\ currentModel' \in scene'
                 /\ allParts' = MeshesOf(currentModel')
                 /\ allParts' # <<>>]_vars
C11_Witness ==
    /\ loads = <<"empty">>
    /\ lastGltf = C11_ZeroMeshFile
    /\ currentModel.kind = "placeholder"
    /\ indicatorDisplay = "none"
    /\ ~isLoading

\* C12: a click on the add-to-cart button while a part is selected leaves
\* cartItems as it was with exactly one item, that of the selected part,
\* appended at its end; a click while no part is selected leaves cartItems
\* as it was.
C12_AddToCartAppendsOne ==
    [][AddToCartClick =>
          IF selectedObject # NoPart
          THEN /\ Len(cartItems') = Len(cartItems) + 1
               /\ SubSeq(cartItems', 1, Len(cartItems)) = cartItems
               /\ cartItems'[Len(cartItems')].objectId = selectedObject
          ELSE cartItems' = cartItems]_vars
\* two different parts are in the cart, and the popup is shown with no part
\* selected, so the button can be clicked without a selection
C12_Witness ==
    /\ Len(cartItems) = 2
    /\ cartItems[1] # cartItems[2]
    /\ popupDisplay = "block"
    /\ selectedObject = NoPart

\* C13: once the selection is cleared no part's material carries the
\* selection glow (emissive 0x00ff00, intensity 0.5): while no part is
\* selected, the material of no part is a glowing one.
C13_NoGlowWithoutSelection ==
    selectedObject = NoPart => \A p \in AllParts : materialOf(material, p) \notin glow

\* C14: picking on the canvas never selects a part whose visible flag is
\* false: the part a canvas click picked is not a hidden one.
C14_PickedPartIsVisible == lastClick \notin hidden

\* C15: highlightedParts is empty when selectedObject is null and is the set
\* {selectedObject} otherwise, and highlightBox.visible is true exactly when
\* selectedObject is not null.
C15_HighlightFollowsSelection ==
    /\ highlightedParts = IF selectedObject = NoPart THEN {} ELSE {selectedObject}
    /\ highlightBox <=> selectedObject # NoPart
\* a part is selected after another one was, and after a part was hidden
C15_Witness ==
    /\ selectedObject # NoPart
    /\ highlightedParts = {selectedObject}
    /\ highlightBox
    /\ \E p \in AllParts : p # selectedObject /\ materialOf(material, p) \in glow
    /\ hidden # {}

\* C17: the selected part, if any, has visible = true.
C17_SelectedPartIsVisible == selectedObject \notin hidden

\* C18: whenever the selection popup is displayed, selectedObject is not null.
C18_PopupHasSelection == popupDisplay = "block" => selectedObject # NoPart

\* C19: the popup hides itself PopupMs after the most recent showPopup unless
\* it is hidden earlier.  At most one auto-hide timer is pending, it is the
\* one of this.popupTimeout, and one is pending exactly while the popup is
\* displayed (hidePopup cancels it); a step that shows the popup or shows it
\* for another part leaves that timer with the full delay; and a displayed
\* popup does not stay displayed forever.
C19_PopupHidesItself ==
    /\ [](/\ Cardinality(popupTimers) <= 1
          /\ \A t \in popupTimers : t.id = popupTimeout
          /\ popupDisplay = "block" <=> popupTimers # {})
    /\ [][(/\ popupDisplay' = "block"
           /\ \/ popupDisplay # "block"
              \/ selectedObject' \notin {selectedObject, NoPart})
              => popupTimers' = {[id |-> popupTimeout', left |-> PopupMs]}]_vars
    /\ []<>(popupDisplay # "block")
\* the popup is displayed and the delay of its timer has passed
C19_Witness ==
    /\ popupDisplay = "block"
    /\ \E t \in popupTimers : t.left = 0

\* C16: selectedObject is null or an element of the current allParts.
C16_SelectedPartIsCurrent ==
    selectedObject = NoPart \/ selectedObject \in Range(allParts)

\* C20: every accepted loadAssembly call whose requests settle is followed by
\* a state in which isLoading is false, the loading indicator is hidden and
\* allParts is non-empty with every part of it a mesh of a model in the scene.
\* An accepted call sets isLoading (line 120) and keeps it set until its
\* finally block, so the calls in progress are the states with isLoading.
C20_Shown ==
    /\ ~isLoading
    /\ indicatorDisplay = "none"
    /\ allParts # <<>>
    /\ \A p \in Range(allParts) : \E m \in scene : p \in PartsIn(m)
C20_AcceptedLoadEndsShown == isLoading ~> C20_Shown
\* a load that failed and one that succeeded have both ended, and the
\* assembly is shown
C20_Witness ==
    /\ Len(loads) = 2
    /\ loads[1] = "failed"
    /\ loads[2] = "success"
    /\ fallbackTimers = {}
    /\ hideTimers = {}
    /\ C20_Shown

\* C21: part ids are unique and equal to list positions: the part at index i
\* of allParts (counted from 0) has userData.partId i, also when small
\* meshes were skipped, and objects holds the same parts as allParts in the
\* same order.
C21_PartIdsArePositions ==
    /\ objects = allParts
    /\ \A i \in DOMAIN allParts : allParts[i].partId = i - 1
    /\ \A i, j \in DOMAIN allParts : i # j => allParts[i].partId # allParts[j].partId
\* a load of the first class definition has ended that skipped a small mesh
\* in front of a part
C21_Witness ==
    /\ classDef = 1
    /\ currentModel.kind = "gltf"
    /\ currentModel.meshes = <<TRUE, FALSE>>
    /\ loads[currentModel.load] = "success"
    /\ allParts = <<Part(currentModel, 2)>>

\* C22: the cart item of a part and the ID the selection popup shows for a
\* part are the part's partId, the number its row in the parts list shows:
\* every item in the cart prints the id that the row of its part prints, and
\* while a part is selected and the popup is shown, so does the popup.
C22_IdsAgreeWithRow ==
    /\ \A i \in DOMAIN cartItems :
           cartItems[i].partId = rowIdText(cartItems[i].objectId)
    /\ (selectedObject # NoPart /\ popupDisplay = "block")
           => popupId = rowIdText(selectedObject)

\* C23: cartItems is changed only by addToCart, which appends one item, and
\* by the clear-cart button, which leaves the empty list: a step of any other
\* handler (selecting, clearing the selection, hiding or showing a part,
\* viewing the cart or closing its window, a load, a timer, the placeholder)
\* leaves cartItems as it was.
C23_OnlyAddAndClearChangeCart ==
    [][cartItems' # cartItems =>
          \/ /\ AddToCartClick
             /\ cartItems' = Append(cartItems, CartItem(selectedObject))
          \/ /\ ClearCartClick
             /\ cartItems' = <<>>]_vars
\* the cart holds a part of an assembly that replaced the first one, its
\* window is open, a part is selected and another one is hidden
C23_Witness ==
    /\ Len(cartItems) = 1
    /\ cartItems[1].objectId.model > 1
    /\ cartModals > 0
    /\ selectedObject # NoPart
    /\ hidden # {}

\* C24: showContextMenu is called only by the long-press timer of a touch of
\* one finger that is still down, and with a part selected; a touchend
\* leaves no long-press timer pending; and at no time is more than one
\* long-press timer pending.
C24_LongPressOnlyWhileHeld ==
    /\ [](Cardinality(pressTimers) <= 1)
    /\ [][(\E id \in TimerIds : PressTimer(id)) /\ selectedObject # NoPart
              => fingers = 1]_vars
    /\ [][(\E n \in 1..MaxFingers, x \in Coords, y \in Coords, ray \in Rays :
                TouchEnd(n, x, y, ray))
              => pressTimers' = {}]_vars

\* C25: the responder reads only files inside the directory it was started
\* in: no read that fs.readFile completes is of a file outside that
\* directory, and no response carries the bytes of such a file.
C25_ReadsStayInside ==
    /\ (req.state = "done" /\ req.read.error = "") => ~outside(req.filePath)
    /\ \A i \in DOMAIN responses :
           responses[i].status = 200 => ~outside(responses[i].body.bytesOf)

====
